---- MODULE Spec2Model ----
(***************************************************************************)
(* Gradient-descent training loops of                                      *)
(* notebooks/introduction_to_tensorflow/labs/1_core_tensorflow.ipynb.      *)
(*                                                                         *)
(* Numbers.  The notebook computes in tf.float32.  A float32 value is      *)
(* modelled as a fixed-point number: the integer v stands for v / SCALE.   *)
(* Every multiplication and division rounds its exact result to the        *)
(* nearest representable value (ties to even), as an IEEE operation does.  *)
(* Products are formed from the high and low parts of their operands so    *)
(* that no intermediate value leaves the 32-bit integers of the checker.   *)
(***************************************************************************)
EXTENDS Integers, Sequences, FiniteSets, TLC

-----------------------------------------------------------------------------
(* Bounds of the model *)

\* units per 1.0 of the fixed-point representation
SCALE == 10000

\* largest caller-supplied step count explored
MaxSteps == 4

\* largest number of samples of a dataset
MaxSamples == 2

\* largest reporting interval explored
MaxInterval == 2

\* largest number of rows of a caller-built weight vector
MaxWeights == 5

\* largest number of columns of a table of an evaluation result
MaxColumns == 2

\* largest number of selected metrics passed to the report
MaxSelected == 2

\* largest explicit length passed to generate_uuid
MaxLength == 2

\* largest number of prompt templates in an edited prompt_templates
MaxTemplates == 2

\* largest number of executions of the prompt-template evaluation cell
MaxExecutions == 2

\* rounding noise allowed between two losses, in units of 1 / SCALE
LossNoise == 1

\* largest number of samples of a dataset whose gradient is evaluated on its own
GradSamples == 3

-----------------------------------------------------------------------------
(* Constants of the notebook *)

\* STEPS = 1000 of the linear cell
LinearSTEPS == 1000

\* if step % 100 == 0
REPORT_EVERY == 100

\* def generate_uuid(length: int = 8)
DefaultLength == 8

-----------------------------------------------------------------------------
(* Fixed-point arithmetic *)

Abs(a) == IF a < 0 THEN -a ELSE a

\* n / d rounded to the nearest integer, ties to even (d > 0)
RoundDiv(n, d) ==
    LET q == n \div d
        r == n % d
    IN  IF 2 * r < d THEN q
        ELSE IF 2 * r > d THEN q + 1
        ELSE IF q % 2 = 0 THEN q ELSE q + 1

\* the literal p/q of the source as a fixed-point number
Fx(p, q) == RoundDiv(p * SCALE, q)

\* a * b
FxMul(a, b) ==
    LET ah == a \div SCALE
        al == a % SCALE
        bh == b \div SCALE
        bl == b % SCALE
    IN  ah * bh * SCALE + ah * bl + al * bh + RoundDiv(al * bl, SCALE)

RECURSIVE SqrtSearch(_, _, _)
\* the largest r in lo..hi with r * r <= n
SqrtSearch(n, lo, hi) ==
    IF lo = hi THEN lo
    ELSE LET mid == (lo + hi + 1) \div 2
         IN  IF mid * mid <= n THEN SqrtSearch(n, mid, hi)
             ELSE SqrtSearch(n, lo, mid - 1)

\* tf.sqrt(a), a >= 0, rounded to nearest
FxSqrt(a) ==
    LET n == a * SCALE
        r == SqrtSearch(n, 0, a + SCALE)
    IN  IF n - r * r > r THEN r + 1 ELSE r

RECURSIVE ExpSeries(_, _, _)
\* the sum of the series of exp(a) from the k-th term on, term being that term
ExpSeries(a, k, term) ==
    IF term = 0 THEN 0
    ELSE term + ExpSeries(a, k + 1, RoundDiv(term * a, (k + 1) * SCALE))

\* tf.exp(a), 0 <= a <= 2
FxExp(a) == ExpSeries(a, 0, SCALE)

RECURSIVE SumSeq(_)
\* tf.reduce_sum of a vector
SumSeq(v) == IF v = <<>> THEN 0 ELSE v[1] + SumSeq(Tail(v))

\* tf.reduce_mean of a vector
reduce_mean(v) == RoundDiv(SumSeq(v), Len(v))

-----------------------------------------------------------------------------
(* Bonus model: feature map, prediction, loss, gradient *)

\* a feature map that stacks exp(x) before sqrt(x)
make_features_exp_before_sqrt(Xv) ==
    [i \in 1..Len(Xv) |->
        << SCALE, Xv[i], FxMul(Xv[i], Xv[i]), FxExp(Xv[i]), FxSqrt(Xv[i]) >>]

\* make_features: one row [1, x, x^2, sqrt(x), exp(x)] per input
make_features(Xv) ==
    [i \in 1..Len(Xv) |->
        << SCALE, Xv[i], FxMul(Xv[i], Xv[i]), FxSqrt(Xv[i]), FxExp(Xv[i]) >>]

\* Xf.shape[1]
Shape1(Xm) == Len(Xm[1])

\* a product that pairs the entries the two operands share and ignores the rest
MatMulTruncating(Xm, Wv) ==
    [ok |-> TRUE,
     val |-> [i \in 1..Len(Xm) |->
                SumSeq([j \in 1..(IF Len(Wv) < Shape1(Xm) THEN Len(Wv) ELSE Shape1(Xm))
                          |-> FxMul(Xm[i][j], Wv[j])])]]

\* X @ W for a matrix X and a column W: InvalidArgumentError unless the
\* number of columns of X is the number of rows of W
MatMul(Xm, Wv) ==
    IF Shape1(Xm) # Len(Wv) THEN [ok |-> FALSE]
    ELSE [ok |-> TRUE,
          val |-> [i \in 1..Len(Xm) |->
                     SumSeq([j \in 1..Len(Wv) |-> FxMul(Xm[i][j], Wv[j])])]]

\* predict(X, W) = tf.squeeze(X @ W, -1)
predict(Xm, Wv) == MatMul(Xm, Wv)

\* (Y_hat - Y) ** 2
SquaredErrors(Yh, Yv) ==
    [i \in 1..Len(Yv) |-> FxMul(Yh[i] - Yv[i], Yh[i] - Yv[i])]

\* loss_mse(X, Y, W)
loss_mse(Xm, Yv, Wv) ==
    LET p == predict(Xm, Wv)
    IN  IF ~p.ok THEN [ok |-> FALSE]
        ELSE [ok |-> TRUE, val |-> reduce_mean(SquaredErrors(p.val, Yv))]

\* the gradient taken of reduce_sum((Y_hat - Y) ** 2): the 1/m of the mean is lost
LossGradSum(Yh, Yv) ==
    [i \in 1..Len(Yv) |-> 2 * (Yh[i] - Yv[i])]

\* the gradient taken of reduce_mean(Y_hat ** 2): the targets are left out
LossGradNoTargets(Yh, Yv) ==
    [i \in 1..Len(Yv) |-> RoundDiv(2 * Yh[i], Len(Yv))]

\* the gradient of reduce_mean((Y_hat - Y) ** 2) with respect to Y_hat, as the
\* tape propagates it: 1/m through the mean, 2 * error through the square
LossGradYhat(Yh, Yv) ==
    [i \in 1..Len(Yv) |-> RoundDiv(2 * (Yh[i] - Yv[i]), Len(Yv))]

\* compute_gradients(X, Y, W) = tape.gradient(loss, W): the tape replays
\* loss_mse backwards; the result has the shape of W
compute_gradients(Xm, Yv, Wv) ==
    LET p == predict(Xm, Wv)
    IN  IF ~p.ok THEN [ok |-> FALSE]
        ELSE LET g == LossGradYhat(p.val, Yv)
             IN  [ok |-> TRUE,
                  val |-> [j \in 1..Len(Wv) |->
                             SumSeq([i \in 1..Len(Yv) |-> FxMul(Xm[i][j], g[i])])]]

\* the update written with assign_add: gradient ascent
assign_add(Wv, dW, lr) == [j \in 1..Len(Wv) |-> Wv[j] + FxMul(dW[j], lr)]

\* W.assign_sub(dW * LEARNING_RATE)
assign_sub(Wv, dW, lr) == [j \in 1..Len(Wv) |-> Wv[j] - FxMul(dW[j], lr)]

\* the weights built with np.ones((n, 1))
ones(n) == [j \in 1..n |-> SCALE]

\* np.zeros((n, 1))
zeros(n) == [j \in 1..n |-> 0]

-----------------------------------------------------------------------------
(* Linear model: loss and gradient for the two scalar weights w0, w1 *)

\* the model without its intercept: Y_hat = w0 * X
Y_hat_no_bias(Xv, a, b) == [i \in 1..Len(Xv) |-> FxMul(a, Xv[i])]

\* Y_hat = w0 * X + w1
Y_hat_linear(Xv, a, b) == [i \in 1..Len(Xv) |-> FxMul(a, Xv[i]) + b]

\* loss_mse(X, Y, w0, w1)
loss_mse_linear(Xv, Yv, a, b) ==
    reduce_mean(SquaredErrors(Y_hat_linear(Xv, a, b), Yv))

\* compute_gradients(X, Y, w0, w1) = tape.gradient(loss, [w0, w1])
compute_gradients_linear(Xv, Yv, a, b) ==
    LET g == LossGradYhat(Y_hat_linear(Xv, a, b), Yv)
    IN  [dw0 |-> SumSeq([i \in 1..Len(Xv) |-> FxMul(Xv[i], g[i])]),
         dw1 |-> SumSeq(g)]

\* steps 1 and 2 of Lab Task #7, the body of the linear loop: dw0 and dw1 from
\* compute_gradients, then w0.assign_sub(dw0 * LEARNING_RATE) and the same for w1
update_linear(Xv, Yv, a, b, lr) ==
    LET g == compute_gradients_linear(Xv, Yv, a, b)
    IN  [dw0 |-> g.dw0, dw1 |-> g.dw1,
         w0 |-> a - FxMul(g.dw0, lr), w1 |-> b - FxMul(g.dw1, lr)]

\* step 3 of Lab Task #7: the reported loss is loss_mse at the current weights
report_loss_linear(Xv, Yv, a, b) == loss_mse_linear(Xv, Yv, a, b)

\* the status line without its weights: "STEP {step} - loss: {loss}"
MSGStepLoss(s, l, a, b) == [step |-> s, loss |-> l]

\* MSG.format(step=step, loss=loss, w0=w0.numpy(), w1=w1.numpy())
MSG(s, l, a, b) == [step |-> s, loss |-> l, w0 |-> a, w1 |-> b]

-----------------------------------------------------------------------------
(* The training loops *)

\* the loop written as range(1, STEPS): it leaves out the last step
HasNextShort(done, total) == done + 1 < total

\* for step in range(1, STEPS + 1): another iteration follows `done` of them
HasNext(done, total) == done < total

\* the test written for steps counted from 0, as range(STEPS) would count them
ReportDueFromZero(s, every) == (s - 1) % every = 0

\* if step % 100 == 0, for the reporting interval every
ReportDue(s, every) == s % every = 0

VARIABLES
    kind,           \* which cell runs: "linear" or "bonus"
    X, Y,           \* the dataset
    Xf,             \* make_features(X) (bonus)
    n_weights,      \* rows of W (bonus)
    STEPS,          \* step count
    INTERVAL,       \* reporting interval
    LEARNING_RATE,  \* learning rate
    pc,             \* per run: "loop", "done" or "error"; "eval", "evaluated"
    step,           \* per run: iterations completed (the last value of `step`)
    W,              \* per run: weight column of the bonus loop
    dW,             \* per run: the last gradient of the bonus loss
    w0, w1,         \* per run: weights of the linear loop
    dw0, dw1,       \* per run: the last gradient of the linear loss
    steps, losses,  \* per run: the plotted lists of the bonus loop
    printed,        \* per run: the lines printed
    W_history,      \* per run: the weights after each completed step
    n_updates,      \* per run: number of weight updates applied
    eval_pc,        \* evaluation notebook: "idle", "call" or "returned"; or the
                    \* position in the notebook: "start", "dataset",
                    \* "templates", "loop", "evaluated", "model", "pairwise"
    eval_result,    \* the (title, summary_metrics, report_df) passed to the report, or <<>>
    metrics_arg,    \* the metrics argument of the report, or Omitted
    displayed,      \* the display calls made, in order
    length_arg,     \* the length argument of generate_uuid, or Omitted
    run_id,         \* the string generate_uuid returned, or None
    context,        \* the list of articles, or None
    reference,      \* the list of ground-truth summaries, or None
    eval_dataset,   \* the data frame of the prompt-template evaluation, or None
    pairwise_eval_dataset,  \* the data frame of the pairwise evaluation, or None
    prompt_templates,       \* the list of prompt templates, or None
    eval_results,   \* the list of (title, summary_metrics, metrics_table)
    i_prompt,       \* the index enumerate(prompt_templates) yields next
    evaluate_calls, \* the evaluate calls of this execution of the loop, in order
    run_history     \* the run ids of the executions of the evaluation cell

config == << kind, X, Y, Xf, n_weights, STEPS, INTERVAL, LEARNING_RATE >>
vars == << kind, X, Y, Xf, n_weights, STEPS, INTERVAL, LEARNING_RATE,
           pc, step, W, dW, w0, w1, dw0, dw1, steps, losses, printed,
           W_history, n_updates,
           eval_pc, eval_result, metrics_arg, displayed, length_arg, run_id,
           context, reference, eval_dataset, pairwise_eval_dataset,
           prompt_templates, eval_results, i_prompt, evaluate_calls, run_history >>

\* the names the cells of the evaluation notebook assign
cells == << context, reference, eval_dataset, pairwise_eval_dataset,
            prompt_templates, eval_results, i_prompt, evaluate_calls, run_history >>

\* the state of the evaluation notebook
evaluation == << eval_pc, eval_result, metrics_arg, displayed, length_arg, run_id,
                 cells >>

\* Python values: None, a list, an int, a str; and the mark of an argument left
\* out of a call
None == [none |-> TRUE]
Omitted == [omitted |-> TRUE]
PyList(l) == [list |-> l]
PyInt(n) == [int |-> n]
PyStr(chars) == [str |-> chars]
IsNone(v) == "none" \in DOMAIN v
IsOmitted(v) == "omitted" \in DOMAIN v

\* no cell of the evaluation notebook has run
NoCells ==
    /\ context = None
    /\ reference = None
    /\ eval_dataset = None
    /\ pairwise_eval_dataset = None
    /\ prompt_templates = None
    /\ eval_results = <<>>
    /\ i_prompt = 0
    /\ evaluate_calls = <<>>
    /\ run_history = <<>>

\* the evaluation notebook is not in use
NoEvaluation ==
    /\ eval_pc = "idle"
    /\ eval_result = <<>>
    /\ metrics_arg = Omitted
    /\ displayed = <<>>
    /\ length_arg = Omitted
    /\ run_id = None
    /\ NoCells

Runs == DOMAIN pc

\* inputs and targets of the datasets explored
RawX == { 0, Fx(1, 2), Fx(1, 1) }
RawY == { 0, Fx(1, 2) }

Datasets ==
    UNION { { [X |-> xs, Y |-> ys] : xs \in [1..m -> RawX], ys \in [1..m -> RawY] }
            : m \in 1..MaxSamples }

\* the notebook's rate 0.02, and a larger one
LearningRates == { Fx(2, 100), Fx(1, 10) }

\* the state of every run in rs before its first iteration
InitRuns(rs) ==
    /\ pc = [r \in rs |-> "loop"]
    /\ step = [r \in rs |-> 0]
    /\ W = [r \in rs |-> zeros(n_weights)]
    /\ dW = [r \in rs |-> <<>>]
    /\ w0 = [r \in rs |-> 0]
    /\ w1 = [r \in rs |-> 0]
    /\ dw0 = [r \in rs |-> 0]
    /\ dw1 = [r \in rs |-> 0]
    /\ steps = [r \in rs |-> <<>>]
    /\ losses = [r \in rs |-> <<>>]
    /\ printed = [r \in rs |-> <<>>]
    /\ W_history = [r \in rs |-> <<>>]
    /\ n_updates = [r \in rs |-> 0]

\* the cell's setup for dataset d
InitData(k, d) ==
    /\ kind = k
    /\ X = d.X
    /\ Y = d.Y
    /\ Xf = IF k = "bonus" THEN make_features(d.X) ELSE <<>>

\* the weight count taken from Xf.shape[0], the number of samples
InitWeightsFromRows == n_weights = IF kind = "bonus" THEN Len(Xf) ELSE 0

\* n_weights = Xf.shape[1]
InitWeights == n_weights = IF kind = "bonus" THEN Shape1(Xf) ELSE 0

InitParams ==
    /\ STEPS \in 0..MaxSteps
    /\ INTERVAL \in 1..MaxInterval
    /\ LEARNING_RATE \in LearningRates

Init ==
    /\ \E k \in {"linear", "bonus"}, d \in Datasets : InitData(k, d)
    /\ InitWeights
    /\ InitParams
    /\ InitRuns({1})
    /\ NoEvaluation

\* the kernel executes one cell at a time: run r proceeds once the executions
\* before it have ended
Turn(r) == \A q \in Runs : q < r => pc[q] \in {"done", "error"}

\* run r is in its loop and the range yields another step
CanIterate(r) == Turn(r) /\ pc[r] = "loop" /\ HasNext(step[r], STEPS)

\* the loop left at any step: an early stop
CanFinishAnytime(r) == Turn(r) /\ pc[r] = "loop"

\* run r is in its loop and the range is exhausted
CanFinish(r) == Turn(r) /\ pc[r] = "loop" /\ ~HasNext(step[r], STEPS)

\* one iteration that takes its gradient from one sample drawn at random instead
\* of the whole dataset (a mini-batch of one)
TrainStepSampled(r) ==
    /\ kind = "bonus"
    /\ CanIterate(r)
    /\ \E i \in 1..Len(Y) :
         LET s == step[r] + 1
             g == compute_gradients(<< Xf[i] >>, << Y[i] >>, W[r])
             Wn == assign_sub(W[r], g.val, LEARNING_RATE)
         IN  /\ dW' = [dW EXCEPT ![r] = g.val]
             /\ W' = [W EXCEPT ![r] = Wn]
             /\ W_history' = [W_history EXCEPT ![r] = Append(@, Wn)]
             /\ n_updates' = [n_updates EXCEPT ![r] = @ + 1]
             /\ step' = [step EXCEPT ![r] = s]
             /\ IF ReportDue(s, INTERVAL)
                THEN /\ steps' = [steps EXCEPT ![r] = Append(@, s)]
                     /\ losses' = [losses EXCEPT ![r] =
                                     Append(@, loss_mse(Xf, Y, Wn).val)]
                ELSE UNCHANGED << steps, losses >>
    /\ UNCHANGED evaluation
    /\ UNCHANGED << config, pc, w0, w1, dw0, dw1, printed >>

\* one iteration of the bonus loop
TrainStepBonus(r) ==
    /\ kind = "bonus"
    /\ CanIterate(r)
    /\ LET s == step[r] + 1
           g == compute_gradients(Xf, Y, W[r])
       IN  IF ~g.ok
           THEN /\ pc' = [pc EXCEPT ![r] = "error"]
                /\ UNCHANGED << step, W, dW, steps, losses, W_history, n_updates >>
           ELSE LET Wn == assign_sub(W[r], g.val, LEARNING_RATE)
                IN  /\ dW' = [dW EXCEPT ![r] = g.val]
                    /\ W' = [W EXCEPT ![r] = Wn]
                    /\ W_history' = [W_history EXCEPT ![r] = Append(@, Wn)]
                    /\ n_updates' = [n_updates EXCEPT ![r] = @ + 1]
                    /\ step' = [step EXCEPT ![r] = s]
                    /\ IF ReportDue(s, INTERVAL)
                       THEN /\ steps' = [steps EXCEPT ![r] = Append(@, s)]
                            /\ losses' = [losses EXCEPT ![r] =
                                            Append(@, loss_mse(Xf, Y, Wn).val)]
                       ELSE UNCHANGED << steps, losses >>
                    /\ UNCHANGED pc
    /\ UNCHANGED evaluation
    /\ UNCHANGED << config, w0, w1, dw0, dw1, printed >>

\* one iteration of the linear loop
TrainStepLinear(r) ==
    /\ kind = "linear"
    /\ CanIterate(r)
    /\ LET s == step[r] + 1
           u == update_linear(X, Y, w0[r], w1[r], LEARNING_RATE)
           a == u.w0
           b == u.w1
       IN  /\ dw0' = [dw0 EXCEPT ![r] = u.dw0]
           /\ dw1' = [dw1 EXCEPT ![r] = u.dw1]
           /\ w0' = [w0 EXCEPT ![r] = a]
           /\ w1' = [w1 EXCEPT ![r] = b]
           /\ W_history' = [W_history EXCEPT ![r] = Append(@, << a, b >>)]
           /\ n_updates' = [n_updates EXCEPT ![r] = @ + 1]
           /\ step' = [step EXCEPT ![r] = s]
           /\ printed' = IF ReportDue(s, INTERVAL)
                         THEN [printed EXCEPT ![r] =
                                 Append(@, MSG(s, report_loss_linear(X, Y, a, b), a, b))]
                         ELSE printed
    /\ UNCHANGED evaluation
    /\ UNCHANGED << config, pc, W, dW, steps, losses >>

\* the loop is exhausted; the bonus cell then prints STEP and MSE
Finish(r) ==
    /\ CanFinish(r)
    /\ IF kind = "bonus"
       THEN LET l == loss_mse(Xf, Y, W[r])
            IN  IF ~l.ok
                THEN /\ pc' = [pc EXCEPT ![r] = "error"]
                     /\ UNCHANGED printed
                ELSE /\ pc' = [pc EXCEPT ![r] = "done"]
                     /\ printed' = [printed EXCEPT ![r] =
                                      Append(@, [STEP |-> STEPS, MSE |-> l.val])]
       ELSE /\ pc' = [pc EXCEPT ![r] = "done"]
            /\ UNCHANGED printed
    /\ UNCHANGED evaluation
    /\ UNCHANGED << config, step, W, dW, w0, w1, dw0, dw1, steps, losses,
                    W_history, n_updates >>

Next ==
    \/ \E r \in Runs : TrainStepBonus(r)
    \/ \E r \in Runs : TrainStepLinear(r)
    \/ \E r \in Runs : Finish(r)

\* the loops for every dataset, step count, interval and rate within the bounds
Spec == Init /\ [][Next]_vars

\* X = tf.constant(range(10)), Y = 2 * X + 10
ToyDataset ==
    LET xs == [i \in 1..10 |-> Fx(i - 1, 1)]
    IN  [X |-> xs, Y |-> [i \in 1..10 |-> 2 * xs[i] + Fx(10, 1)]]

\* X_test = tf.constant(range(10, 20)), Y_test = 2 * X_test + 10
X_test == [i \in 1..10 |-> Fx(i + 9, 1)]
Y_test == [i \in 1..10 |-> 2 * X_test[i] + Fx(10, 1)]

\* y_mean = Y.numpy().mean(): the mean of the training targets
y_mean == reduce_mean(Y)

\* predict_mean(X): y_mean for every input
predict_mean(Xv) == [i \in 1..Len(Xv) |-> y_mean]

\* the test loss of the baseline: tf.reduce_mean((Y_hat - Y_test) ** 2) for
\* Y_hat = predict_mean(X_test)
baseline_loss == reduce_mean(SquaredErrors(predict_mean(X_test), Y_test))

\* the test loss of the fitted line: loss_mse(X_test, Y_test, w0, w1)
test_loss(r) == loss_mse_linear(X_test, Y_test, w0[r], w1[r])

\* the linear cell as written: 1000 steps at rate 0.02, a line every 100 steps
InitLinearCell ==
    /\ InitData("linear", ToyDataset)
    /\ InitWeights
    /\ STEPS = LinearSTEPS
    /\ INTERVAL = REPORT_EVERY
    /\ LEARNING_RATE = Fx(2, 100)
    /\ InitRuns({1})
    /\ NoEvaluation

NextLinear ==
    \/ \E r \in Runs : TrainStepLinear(r)
    \/ \E r \in Runs : Finish(r)

\* the notebook's linear training cell
SpecLinearCell == InitLinearCell /\ [][NextLinear]_vars

\* two executions of the same cell on the same inputs, at the notebook's rate
InitTwoRuns ==
    /\ \E k \in {"linear", "bonus"}, d \in Datasets : InitData(k, d)
    /\ InitWeights
    /\ STEPS \in 0..MaxSteps
    /\ INTERVAL \in 1..MaxInterval
    /\ LEARNING_RATE = Fx(2, 100)
    /\ InitRuns({1, 2})
    /\ NoEvaluation

\* two executions of a loop, one after the other
SpecTwoRuns == InitTwoRuns /\ [][Next]_vars

\* targets and weights at which a gradient is evaluated on its own
GradY == { 0, Fx(3, 2) }
GradWeights == { 0, Fx(1, 2) }

GradDatasets ==
    UNION { { [X |-> xs, Y |-> ys] : xs \in [1..m -> RawX], ys \in [1..m -> GradY] }
            : m \in 1..GradSamples }

\* a cell that evaluates compute_gradients at given weights: any small dataset
\* and weights for either model, or the toy dataset at (0, 0) or at (2, 10)
InitGradientCell ==
    /\ \/ \E k \in {"linear", "bonus"}, d \in GradDatasets : InitData(k, d)
       \/ InitData("linear", ToyDataset)
    /\ InitWeights
    /\ STEPS = 0 /\ INTERVAL = REPORT_EVERY /\ LEARNING_RATE = Fx(2, 100)
    /\ pc = [r \in {1} |-> "eval"]
    /\ step = [r \in {1} |-> 0]
    /\ W \in [{1} -> [1..n_weights -> GradWeights]]
    /\ dW = [r \in {1} |-> <<>>]
    /\ IF kind = "bonus"
       THEN w0 = [r \in {1} |-> 0] /\ w1 = [r \in {1} |-> 0]
       ELSE IF X = ToyDataset.X
       THEN \/ w0 = [r \in {1} |-> 0] /\ w1 = [r \in {1} |-> 0]
            \/ w0 = [r \in {1} |-> Fx(2, 1)] /\ w1 = [r \in {1} |-> Fx(10, 1)]
       ELSE w0 \in [{1} -> GradWeights] /\ w1 \in [{1} -> GradWeights]
    /\ dw0 = [r \in {1} |-> 0]
    /\ dw1 = [r \in {1} |-> 0]
    /\ steps = [r \in {1} |-> <<>>]
    /\ losses = [r \in {1} |-> <<>>]
    /\ printed = [r \in {1} |-> <<>>]
    /\ W_history = [r \in {1} |-> <<>>]
    /\ n_updates = [r \in {1} |-> 0]
    /\ NoEvaluation

\* dW = compute_gradients(Xf, Y, W)
EvalGradientBonus(r) ==
    /\ kind = "bonus"
    /\ pc[r] = "eval"
    /\ dW' = [dW EXCEPT ![r] = compute_gradients(Xf, Y, W[r]).val]
    /\ pc' = [pc EXCEPT ![r] = "evaluated"]
    /\ UNCHANGED evaluation
    /\ UNCHANGED << config, step, W, w0, w1, dw0, dw1, steps, losses, printed,
                    W_history, n_updates >>

\* dw0, dw1 = compute_gradients(X, Y, w0, w1)
EvalGradientLinear(r) ==
    /\ kind = "linear"
    /\ pc[r] = "eval"
    /\ LET g == compute_gradients_linear(X, Y, w0[r], w1[r])
       IN  /\ dw0' = [dw0 EXCEPT ![r] = g.dw0]
           /\ dw1' = [dw1 EXCEPT ![r] = g.dw1]
    /\ pc' = [pc EXCEPT ![r] = "evaluated"]
    /\ UNCHANGED evaluation
    /\ UNCHANGED << config, step, W, dW, w0, w1, steps, losses, printed,
                    W_history, n_updates >>

NextGradient ==
    \/ \E r \in Runs : EvalGradientBonus(r)
    \/ \E r \in Runs : EvalGradientLinear(r)

\* the gradient computer applied to given weights
SpecGradient == InitGradientCell /\ [][NextGradient]_vars

\* a caller builds W with any number of rows instead of Xf.shape[1]
InitCallerWeights ==
    /\ \E d \in Datasets : InitData("bonus", d)
    /\ n_weights \in 1..MaxWeights
    /\ InitParams
    /\ InitRuns({1})
    /\ NoEvaluation

NextBonus ==
    \/ \E r \in Runs : TrainStepBonus(r)
    \/ \E r \in Runs : Finish(r)

\* the bonus loop over a weight column of any size
SpecCallerWeights == InitCallerWeights /\ [][NextBonus]_vars

-----------------------------------------------------------------------------
(* The loops statement by statement: every iteration is the loop header with the
   gradient computation, then the update, then the report test *)

\* the weights of run r before its latest update
PreviousWeights(r) ==
    IF Len(W_history[r]) >= 2 THEN W_history[r][Len(W_history[r]) - 1]
    ELSE IF kind = "bonus" THEN zeros(n_weights) ELSE << 0, 0 >>

\* a gradient computation that also applies the update to W
ComputeGradientUpdating(r) ==
    /\ kind = "bonus"
    /\ CanIterate(r)
    /\ LET g == compute_gradients(Xf, Y, W[r])
       IN  /\ dW' = [dW EXCEPT ![r] = g.val]
           /\ W' = [W EXCEPT ![r] = assign_sub(W[r], g.val, LEARNING_RATE)]
           /\ step' = [step EXCEPT ![r] = @ + 1]
           /\ pc' = [pc EXCEPT ![r] = "gradient"]
    /\ UNCHANGED evaluation
    /\ UNCHANGED << config, w0, w1, dw0, dw1, steps, losses, printed,
                    W_history, n_updates >>

\* for step in range(1, STEPS + 1): dW = compute_gradients(Xf, Y, W)
ComputeGradientBonus(r) ==
    /\ kind = "bonus"
    /\ CanIterate(r)
    /\ LET g == compute_gradients(Xf, Y, W[r])
       IN  IF ~g.ok
           THEN /\ pc' = [pc EXCEPT ![r] = "error"]
                /\ UNCHANGED << step, dW >>
           ELSE /\ dW' = [dW EXCEPT ![r] = g.val]
                /\ step' = [step EXCEPT ![r] = @ + 1]
                /\ pc' = [pc EXCEPT ![r] = "gradient"]
    /\ UNCHANGED evaluation
    /\ UNCHANGED << config, W, w0, w1, dw0, dw1, steps, losses, printed,
                    W_history, n_updates >>

\* W.assign_sub(dW * LEARNING_RATE)
ApplyUpdateBonus(r) ==
    /\ kind = "bonus"
    /\ pc[r] = "gradient"
    /\ LET Wn == assign_sub(W[r], dW[r], LEARNING_RATE)
       IN  /\ W' = [W EXCEPT ![r] = Wn]
           /\ W_history' = [W_history EXCEPT ![r] = Append(@, Wn)]
    /\ n_updates' = [n_updates EXCEPT ![r] = @ + 1]
    /\ pc' = [pc EXCEPT ![r] = "updated"]
    /\ UNCHANGED evaluation
    /\ UNCHANGED << config, step, dW, w0, w1, dw0, dw1, steps, losses, printed >>

\* a report of the loss kept from the gradient computation, taken before the
\* update
ReportStaleLoss(r) ==
    /\ kind = "bonus"
    /\ pc[r] = "updated"
    /\ IF ReportDue(step[r], INTERVAL)
       THEN /\ steps' = [steps EXCEPT ![r] = Append(@, step[r])]
            /\ losses' = [losses EXCEPT ![r] =
                            Append(@, loss_mse(Xf, Y, PreviousWeights(r)).val)]
       ELSE UNCHANGED << steps, losses >>
    /\ pc' = [pc EXCEPT ![r] = "loop"]
    /\ UNCHANGED evaluation
    /\ UNCHANGED << config, step, W, dW, w0, w1, dw0, dw1, printed,
                    W_history, n_updates >>

\* if step % 100 == 0: loss = loss_mse(Xf, Y, W); steps.append(step);
\* losses.append(loss)
ReportBonus(r) ==
    /\ kind = "bonus"
    /\ pc[r] = "updated"
    /\ IF ReportDue(step[r], INTERVAL)
       THEN /\ steps' = [steps EXCEPT ![r] = Append(@, step[r])]
            /\ losses' = [losses EXCEPT ![r] =
                            Append(@, loss_mse(Xf, Y, W[r]).val)]
       ELSE UNCHANGED << steps, losses >>
    /\ pc' = [pc EXCEPT ![r] = "loop"]
    /\ UNCHANGED evaluation
    /\ UNCHANGED << config, step, W, dW, w0, w1, dw0, dw1, printed,
                    W_history, n_updates >>

\* for step in range(1, STEPS + 1): dw0, dw1 = compute_gradients(X, Y, w0, w1)
ComputeGradientLinear(r) ==
    /\ kind = "linear"
    /\ CanIterate(r)
    /\ LET g == compute_gradients_linear(X, Y, w0[r], w1[r])
       IN  /\ dw0' = [dw0 EXCEPT ![r] = g.dw0]
           /\ dw1' = [dw1 EXCEPT ![r] = g.dw1]
    /\ step' = [step EXCEPT ![r] = @ + 1]
    /\ pc' = [pc EXCEPT ![r] = "gradient"]
    /\ UNCHANGED evaluation
    /\ UNCHANGED << config, W, dW, w0, w1, steps, losses, printed,
                    W_history, n_updates >>

\* w0.assign_sub(dw0 * LEARNING_RATE); w1.assign_sub(dw1 * LEARNING_RATE)
ApplyUpdateLinear(r) ==
    /\ kind = "linear"
    /\ pc[r] = "gradient"
    /\ LET a == w0[r] - FxMul(dw0[r], LEARNING_RATE)
           b == w1[r] - FxMul(dw1[r], LEARNING_RATE)
       IN  /\ w0' = [w0 EXCEPT ![r] = a]
           /\ w1' = [w1 EXCEPT ![r] = b]
           /\ W_history' = [W_history EXCEPT ![r] = Append(@, << a, b >>)]
    /\ n_updates' = [n_updates EXCEPT ![r] = @ + 1]
    /\ pc' = [pc EXCEPT ![r] = "updated"]
    /\ UNCHANGED evaluation
    /\ UNCHANGED << config, step, W, dW, dw0, dw1, steps, losses, printed >>

\* if step % 100 == 0: loss = loss_mse(X, Y, w0, w1); print(MSG.format(...))
ReportLinear(r) ==
    /\ kind = "linear"
    /\ pc[r] = "updated"
    /\ printed' = IF ReportDue(step[r], INTERVAL)
                  THEN [printed EXCEPT ![r] =
                          Append(@, MSG(step[r],
                                        report_loss_linear(X, Y, w0[r], w1[r]),
                                        w0[r], w1[r]))]
                  ELSE printed
    /\ pc' = [pc EXCEPT ![r] = "loop"]
    /\ UNCHANGED evaluation
    /\ UNCHANGED << config, step, W, dW, w0, w1, dw0, dw1, steps, losses,
                    W_history, n_updates >>

NextStatements ==
    \/ \E r \in Runs : ComputeGradientBonus(r)
    \/ \E r \in Runs : ApplyUpdateBonus(r)
    \/ \E r \in Runs : ReportBonus(r)
    \/ \E r \in Runs : ComputeGradientLinear(r)
    \/ \E r \in Runs : ApplyUpdateLinear(r)
    \/ \E r \in Runs : ReportLinear(r)
    \/ \E r \in Runs : Finish(r)

\* the loops of both cells, one statement at a time
SpecStatements == Init /\ [][NextStatements]_vars

-----------------------------------------------------------------------------
(* The evaluation notebook
   notebooks/vertex_genai/solutions/gen_ai_evaluation_service.ipynb: the report
   of an evaluation result and the run identifier.  A string is the sequence of
   its characters. *)

\* the training notebook is not in use
NoTraining ==
    /\ kind = "none"
    /\ X = <<>> /\ Y = <<>> /\ Xf = <<>>
    /\ n_weights = 0 /\ STEPS = 0 /\ INTERVAL = REPORT_EVERY
    /\ LEARNING_RATE = Fx(2, 100)
    /\ pc = <<>> /\ step = <<>> /\ W = <<>> /\ dW = <<>>
    /\ w0 = <<>> /\ w1 = <<>> /\ dw0 = <<>> /\ dw1 = <<>>
    /\ steps = <<>> /\ losses = <<>> /\ printed = <<>>
    /\ W_history = <<>> /\ n_updates = <<>>

\* the elements of a list
Range(seq) == { seq[i] : i \in 1..Len(seq) }

\* the lists of at most n elements of S
RECURSIVE ListsOf(_, _)
ListsOf(S, n) ==
    IF n = 0 THEN { <<>> }
    ELSE LET shorter == ListsOf(S, n - 1)
         IN  shorter \cup { Append(l, x) : l \in shorter, x \in S }

\* the lists of at most n elements of S in which no element occurs twice
ColumnsOf(S, n) == { l \in ListsOf(S, n) : Cardinality(Range(l)) = Len(l) }

\* names of the columns of the summary table and of the report table; the
\* report table has dataset columns next to its metric columns
SummaryNames == { << "a" >>, << "a", "b" >>, << "b", "a" >>, << "b", "b" >> }
ReportNames == { << "b" >>, << "a", "b" >>, << "b", "a" >> }

\* strings a caller selects metrics with, the empty string among them
SelectedNames == { <<>>, << "a" >>, << "a", "b" >> }

\* f"Prompt #{i}"
Titles == { "Prompt #0", "Prompt #1" }

\* the results the evaluation loop collects:
\* (title, eval_result.summary_metrics, eval_result.metrics_table)
EvalResults ==
    { << t, sm, mt >> : t \in Titles,
                        sm \in ColumnsOf(SummaryNames, MaxColumns),
                        mt \in ColumnsOf(ReportNames, MaxColumns) }

\* the values of the metrics argument: left out, None, or a list of strings
MetricsArgs ==
    { Omitted, None } \cup { PyList(l) : l \in ListsOf(SelectedNames, MaxSelected) }

\* selected_metric == metric: the names are compared as wholes
ExactMatch(sub, str) == sub = str

\* selected_metric in metric, for two strings: sub occurs in str at some offset
Contains(sub, str) ==
    \E i \in 0..(Len(str) - Len(sub)) : SubSeq(str, i + 1, i + Len(sub)) = sub

\* any(selected_metric in metric for selected_metric in metrics)
AnySelected(metric, metrics) ==
    \E k \in 1..Len(metrics) : Contains(metrics[k], metric)

\* [metric for metric in df.columns if any(...)]
SelectedColumns(columns, metrics) ==
    LET Keep(metric) == AnySelected(metric, metrics)
    IN  SelectSeq(columns, Keep)

\* df.filter(items): the labels of items that are columns of df, in the order
\* of items
DataFrameFilter(columns, items) ==
    LET IsColumn(label) == label \in Range(columns)
    IN  SelectSeq(items, IsColumn)

\* the test written as `if metrics is not None`
IsNotNone(m) == ~IsNone(m)

\* if metrics: None and the empty list are false
Truthy(m) == IF IsNone(m) THEN FALSE ELSE m.list # <<>>

\* metrics=None: the value of the parameter for argument arg
MetricsParameter(arg) == IF IsOmitted(arg) THEN None ELSE arg

\* pd.DataFrame.from_dict(summary_metrics, orient="index").T: one column per key
metrics_df_columns(summary_metrics) == summary_metrics

\* display(Markdown(text)) and display(df)
Heading(text) == [markdown |-> text]
Table(columns) == [table |-> columns]

\* a report that leaves out a table that has no column
display_calls_skip_empty(er, arg) ==
    LET metrics == MetricsParameter(arg)
        mcols == metrics_df_columns(er[2])
        mdf == IF Truthy(metrics)
               THEN DataFrameFilter(mcols, SelectedColumns(mcols, metrics.list))
               ELSE mcols
        rdf == IF Truthy(metrics)
               THEN DataFrameFilter(er[3], SelectedColumns(er[3], metrics.list))
               ELSE er[3]
    IN  << Heading(<< "## ", er[1] >>) >>
        \o (IF mdf = <<>> THEN <<>>
            ELSE << Heading("### Summary Metrics"), Table(mdf) >>)
        \o (IF rdf = <<>> THEN <<>>
            ELSE << Heading("### Report Metrics"), Table(rdf) >>)

\* display_eval_report(eval_result, metrics): the display calls it makes
display_calls(er, arg) ==
    LET metrics == MetricsParameter(arg)
        mcols == metrics_df_columns(er[2])
        mdf == IF Truthy(metrics)
               THEN DataFrameFilter(mcols, SelectedColumns(mcols, metrics.list))
               ELSE mcols
        rdf == IF Truthy(metrics)
               THEN DataFrameFilter(er[3], SelectedColumns(er[3], metrics.list))
               ELSE er[3]
    IN  << Heading(<< "## ", er[1] >>),
           Heading("### Summary Metrics"), Table(mdf),
           Heading("### Report Metrics"), Table(rdf) >>

\* a call of display_eval_report is about to be made
InitReport ==
    /\ NoTraining
    /\ eval_pc = "call"
    /\ eval_result \in EvalResults
    /\ metrics_arg \in MetricsArgs
    /\ displayed = <<>>
    /\ length_arg = Omitted
    /\ run_id = None
    /\ NoCells

\* display_eval_report(eval_result, metrics)
DisplayEvalReport ==
    /\ eval_pc = "call"
    /\ eval_result # <<>>
    /\ displayed' = displayed \o display_calls(eval_result, metrics_arg)
    /\ eval_pc' = "returned"
    /\ UNCHANGED << eval_result, metrics_arg, length_arg, run_id, cells >>
    /\ UNCHANGED << config, pc, step, W, dW, w0, w1, dw0, dw1, steps, losses,
                    printed, W_history, n_updates >>

NextReport == DisplayEvalReport

\* one call of display_eval_report
SpecReport == InitReport /\ [][NextReport]_vars

\* string.ascii_lowercase, string.ascii_uppercase, string.digits
ascii_lowercase ==
    << "a", "b", "c", "d", "e", "f", "g", "h", "i", "j", "k", "l", "m",
       "n", "o", "p", "q", "r", "s", "t", "u", "v", "w", "x", "y", "z" >>
ascii_uppercase ==
    << "A", "B", "C", "D", "E", "F", "G", "H", "I", "J", "K", "L", "M",
       "N", "O", "P", "Q", "R", "S", "T", "U", "V", "W", "X", "Y", "Z" >>
digits == << "0", "1", "2", "3", "4", "5", "6", "7", "8", "9" >>

\* the population written as string.ascii_letters + string.digits
PopulationLetters == ascii_lowercase \o ascii_uppercase \o digits

\* string.ascii_lowercase + string.digits
Population == ascii_lowercase \o digits

\* the indices floor(random() * n) explored: the first and the last letter, the
\* first and the last digit
DrawnIndices == { 0, Len(ascii_lowercase) - 1, Len(ascii_lowercase), Len(Population) - 1 }

\* the number of draws for the argument
LengthParameter(arg) == IF IsOmitted(arg) THEN DefaultLength ELSE arg.int

\* a call of generate_uuid is about to be made
InitUuid ==
    /\ NoTraining
    /\ eval_pc = "call"
    /\ eval_result = <<>>
    /\ metrics_arg = Omitted
    /\ displayed = <<>>
    /\ length_arg \in { Omitted } \cup { PyInt(n) : n \in 0..MaxLength }
    /\ run_id = None
    /\ NoCells

\* generate_uuid(length): "".join(random.choices(population, k=length))
GenerateUuid ==
    /\ eval_pc = "call"
    /\ eval_result = <<>>
    /\ \E choice \in [1..LengthParameter(length_arg) -> DrawnIndices] :
           run_id' = PyStr([i \in 1..LengthParameter(length_arg) |->
                            Population[choice[i] + 1]])
    /\ eval_pc' = "returned"
    /\ UNCHANGED << eval_result, metrics_arg, displayed, length_arg, cells >>
    /\ UNCHANGED << config, pc, step, W, dW, w0, w1, dw0, dw1, steps, losses,
                    printed, W_history, n_updates >>

NextUuid == GenerateUuid

\* one call of generate_uuid
SpecUuid == InitUuid /\ [][NextUuid]_vars

-----------------------------------------------------------------------------
(* The cells of the evaluation notebook, executed from top to bottom: the
   dataset, the prompt templates, the prompt-template evaluation loop (which may
   be executed again), the articles of the pairwise evaluation, and its data
   frame.  An article or a summary is written with its opening words. *)

\* instruction = "Summarize the following article"
instruction == "Summarize the following article"

\* context = [...] of the dataset cell
ContextArticles ==
    << "To make a classic spaghetti carbonara",
       "Preparing a perfect risotto",
       "To bake a decadent chocolate cake" >>

\* reference = [...] of the dataset cell
ReferenceSummaries ==
    << "The process of making spaghetti carbonara",
       "Preparing risotto entails",
       "Baking a decadent chocolate cake" >>

\* context = [...] of the cell that configures the model of the pairwise part
PairwiseArticles ==
    << "To make a classic spaghetti carbonara",
       "Preparing a perfect risotto",
       "For a flavorful grilled steak" >>

\* [instruction] * len(context)
Repeat(v, n) == [k \in 1..n |-> v]

\* pd.DataFrame({"context": c, "reference": r, "instruction": ins}): one row per
\* index; ValueError unless the columns have the same length
DataFrame(c, r, ins) ==
    IF Len(c) = Len(r) /\ Len(c) = Len(ins)
    THEN [rows |-> [k \in 1..Len(c) |->
                      [context |-> c[k], reference |-> r[k], instruction |-> ins[k]]]]
    ELSE [error |-> "ValueError"]

\* the two prompt templates of the notebook
SourceTemplates ==
    << "Instruction: {instruction}. Article: {context}. Summary:",
       "Article: {context}. Complete this task: {instruction}, in one sentence. Summary:" >>

\* the lists prompt_templates may hold: the list of the notebook, and the lists
\* of at most MaxTemplates of its templates a reader experiments with
TemplateLists == { SourceTemplates } \cup ListsOf(Range(SourceTemplates), MaxTemplates)

\* what an evaluate call returns: summary_metrics and metrics_table, written
\* with the mean score and the row scores they hold
SummaryMetrics == { [mean |-> 0], [mean |-> 1] }
MetricsTables == { [scores |-> << 0, 0, 0 >>], [scores |-> << 1, 1, 1 >>] }

\* str(n) for n >= 0
RECURSIVE Decimal(_)
Decimal(n) == IF n < 10 THEN << digits[n + 1] >>
              ELSE Decimal(n \div 10) \o << digits[(n % 10) + 1] >>

\* a run name that leaves out the index of the template
experiment_run_name_no_index(id, n) ==
    << "e", "v", "a", "l", "-", "p", "r", "o", "m", "p", "t", "-",
       "e", "n", "g", "i", "n", "e", "e", "r", "i", "n", "g", "-" >>
    \o id \o << "-", "p", "r", "o", "m", "p", "t" >>

\* f"eval-prompt-engineering-{run_id}-prompt-{i}"
experiment_run_name(id, n) ==
    << "e", "v", "a", "l", "-", "p", "r", "o", "m", "p", "t", "-",
       "e", "n", "g", "i", "n", "e", "e", "r", "i", "n", "g", "-" >>
    \o id \o << "-", "p", "r", "o", "m", "p", "t", "-" >> \o Decimal(n)

\* f"Prompt #{i}"
PromptTitle(n) == << "P", "r", "o", "m", "p", "t", " ", "#" >> \o Decimal(n)

\* "".join(random.choices(population, k=length)) for the indices drawn
generate_uuid(choice) == [k \in 1..Len(choice) |-> Population[choice[k] + 1]]

\* the draws of generate_uuid() explored in the notebook: the first letter and
\* the last digit, alternating
CellChoices ==
    { [k \in 1..DefaultLength |-> IF k % 2 = 1 THEN a ELSE b] :
        a, b \in { 0, Len(Population) - 1 } }

\* a fresh kernel
InitNotebook ==
    /\ NoTraining
    /\ eval_pc = "start"
    /\ eval_result = <<>>
    /\ metrics_arg = Omitted
    /\ displayed = <<>>
    /\ length_arg = Omitted
    /\ run_id = None
    /\ NoCells

\* the cell that defines instruction, context, reference and eval_dataset
DatasetCell ==
    /\ eval_pc = "start"
    /\ context' = PyList(ContextArticles)
    /\ reference' = PyList(ReferenceSummaries)
    /\ eval_dataset' = DataFrame(ContextArticles, ReferenceSummaries,
                                 Repeat(instruction, Len(ContextArticles)))
    /\ eval_pc' = "dataset"
    /\ UNCHANGED << eval_result, metrics_arg, displayed, length_arg, run_id,
                    pairwise_eval_dataset, prompt_templates, eval_results,
                    i_prompt, evaluate_calls, run_history >>
    /\ UNCHANGED << config, pc, step, W, dW, w0, w1, dw0, dw1, steps, losses,
                    printed, W_history, n_updates >>

\* prompt_templates = [...]
TemplatesCell ==
    /\ eval_pc = "dataset"
    /\ \E l \in TemplateLists : prompt_templates' = PyList(l)
    /\ eval_pc' = "templates"
    /\ UNCHANGED << eval_result, metrics_arg, displayed, length_arg, run_id,
                    context, reference, eval_dataset, pairwise_eval_dataset,
                    eval_results, i_prompt, evaluate_calls, run_history >>
    /\ UNCHANGED << config, pc, step, W, dW, w0, w1, dw0, dw1, steps, losses,
                    printed, W_history, n_updates >>

\* the evaluation cell up to its loop: run_id = generate_uuid();
\* eval_results = []; the cell is executed for the first time or once more
StartEvaluationCell ==
    /\ eval_pc \in { "templates", "evaluated" }
    /\ Len(run_history) < MaxExecutions
    /\ \E choice \in CellChoices :
           /\ run_id' = PyStr(generate_uuid(choice))
           /\ run_history' = Append(run_history, generate_uuid(choice))
    /\ eval_results' = <<>>
    /\ i_prompt' = 0
    /\ evaluate_calls' = <<>>
    /\ eval_pc' = "loop"
    /\ UNCHANGED << eval_result, metrics_arg, displayed, length_arg,
                    context, reference, eval_dataset, pairwise_eval_dataset,
                    prompt_templates >>
    /\ UNCHANGED << config, pc, step, W, dW, w0, w1, dw0, dw1, steps, losses,
                    printed, W_history, n_updates >>

\* one iteration of for i, prompt_template in enumerate(prompt_templates): the
\* evaluate call and the append
EvaluateTemplate ==
    /\ eval_pc = "loop"
    /\ i_prompt < Len(prompt_templates.list)
    /\ \E sm \in SummaryMetrics, mt \in MetricsTables :
           /\ evaluate_calls' =
                  Append(evaluate_calls,
                         [prompt_template |-> prompt_templates.list[i_prompt + 1],
                          experiment_run_name |->
                              experiment_run_name(run_id.str, i_prompt),
                          dataset |-> eval_dataset,
                          summary_metrics |-> sm,
                          metrics_table |-> mt])
           /\ eval_results' = Append(eval_results, << PromptTitle(i_prompt), sm, mt >>)
    /\ i_prompt' = i_prompt + 1
    /\ UNCHANGED << eval_pc, eval_result, metrics_arg, displayed, length_arg,
                    run_id, context, reference, eval_dataset,
                    pairwise_eval_dataset, prompt_templates, run_history >>
    /\ UNCHANGED << config, pc, step, W, dW, w0, w1, dw0, dw1, steps, losses,
                    printed, W_history, n_updates >>

\* enumerate(prompt_templates) is exhausted: the evaluation cell ends
EndEvaluationCell ==
    /\ eval_pc = "loop"
    /\ i_prompt >= Len(prompt_templates.list)
    /\ eval_pc' = "evaluated"
    /\ UNCHANGED << eval_result, metrics_arg, displayed, length_arg, run_id, cells >>
    /\ UNCHANGED << config, pc, step, W, dW, w0, w1, dw0, dw1, steps, losses,
                    printed, W_history, n_updates >>

\* the cell that configures the model of the pairwise part and assigns
\* context again
ModelCell ==
    /\ eval_pc = "evaluated"
    /\ context' = PyList(PairwiseArticles)
    /\ eval_pc' = "model"
    /\ UNCHANGED << eval_result, metrics_arg, displayed, length_arg, run_id,
                    reference, eval_dataset, pairwise_eval_dataset,
                    prompt_templates, eval_results, i_prompt, evaluate_calls,
                    run_history >>
    /\ UNCHANGED << config, pc, step, W, dW, w0, w1, dw0, dw1, steps, losses,
                    printed, W_history, n_updates >>

\* pairwise_eval_dataset = pd.DataFrame({"context": context, "instruction":
\* [instruction] * len(context), "reference": reference})
PairwiseCell ==
    /\ eval_pc = "model"
    /\ pairwise_eval_dataset' =
           DataFrame(context.list, reference.list,
                     Repeat(instruction, Len(context.list)))
    /\ eval_pc' = "pairwise"
    /\ UNCHANGED << eval_result, metrics_arg, displayed, length_arg, run_id,
                    context, reference, eval_dataset, prompt_templates,
                    eval_results, i_prompt, evaluate_calls, run_history >>
    /\ UNCHANGED << config, pc, step, W, dW, w0, w1, dw0, dw1, steps, losses,
                    printed, W_history, n_updates >>

NextNotebook ==
    \/ DatasetCell
    \/ TemplatesCell
    \/ StartEvaluationCell
    \/ EvaluateTemplate
    \/ EndEvaluationCell
    \/ ModelCell
    \/ PairwiseCell

\* the evaluation notebook executed from top to bottom
SpecNotebook == InitNotebook /\ [][NextNotebook]_vars

-----------------------------------------------------------------------------
(* Claims *)

\* C1: for every step count N >= 0 the loop applies exactly N weight updates
\* (steps 1..N) and then reaches DONE.  In every state: a run has applied as many
\* updates as it has completed steps and never more than STEPS; while fewer than
\* STEPS are applied the run has not stopped: it is in its loop and the guard of
\* its next iteration holds, whatever the loss and the gradient are; with STEPS
\* applied no further iteration is possible and the run is done or leaves its
\* loop next
C1_ExactlyNUpdatesThenDone ==
    \A r \in Runs :
        /\ n_updates[r] = step[r]
        /\ n_updates[r] <= STEPS
        /\ pc[r] \in {"loop", "done"}
        /\ n_updates[r] < STEPS => CanIterate(r)
        /\ n_updates[r] = STEPS => ~CanIterate(r) /\ (pc[r] = "done" \/ CanFinish(r))

\* C1 witness: a bonus run of MaxSteps steps whose gradient was zero at every
\* step (the weights never moved) has applied all its updates and is done
C1_Witness ==
    /\ kind = "bonus" /\ STEPS = MaxSteps /\ STEPS >= 2
    /\ pc[1] = "done" /\ n_updates[1] = STEPS
    /\ dW[1] = zeros(n_weights) /\ W[1] = zeros(n_weights)

\* the step of plain gradient descent from weights Wv: w - LEARNING_RATE * g with
\* g the gradient at Wv
DescentStep(Wv) ==
    LET g == compute_gradients(Xf, Y, Wv).val
    IN  [j \in 1..Len(Wv) |-> Wv[j] - FxMul(g[j], LEARNING_RATE)]

\* the same for the two weights of the linear loop
DescentStepLinear(a, b) ==
    LET g == compute_gradients_linear(X, Y, a, b)
    IN  << a - FxMul(g.dw0, LEARNING_RATE), b - FxMul(g.dw1, LEARNING_RATE) >>

\* C2: every step replaces the weights w by w - LEARNING_RATE * g, g being the
\* gradient of the loss at the weights held at the start of the step; the new
\* weights are a function of those weights, the dataset and the rate alone, and
\* the weights change in no other transition
C2_PlainGradientDescent ==
    [][\A r \in Runs :
          IF step'[r] # step[r]
          THEN /\ step'[r] = step[r] + 1
               /\ kind = "bonus" =>
                    /\ W'[r] = DescentStep(W[r])
                    /\ dW'[r] = compute_gradients(Xf, Y, W[r]).val
               /\ kind = "linear" =>
                    << w0'[r], w1'[r] >> = DescentStepLinear(w0[r], w1[r])
          ELSE W'[r] = W[r] /\ w0'[r] = w0[r] /\ w1'[r] = w1[r]]_vars

\* C2 witness: a bonus run has taken at least two steps, the last of them with a
\* gradient that is not zero, from weights that the first had already moved
C2_Witness ==
    /\ kind = "bonus" /\ step[1] >= 2
    /\ dW[1] # zeros(n_weights)
    /\ W[1] # zeros(n_weights)
    /\ W[1] # assign_sub(zeros(n_weights), dW[1], LEARNING_RATE)

\* the steps at which run r has reported so far
ReportedSteps(r) ==
    IF kind = "bonus" THEN steps[r]
    ELSE [k \in 1..Len(printed[r]) |-> printed[r][k].step]

\* C3: with steps numbered from 1 and interval R, a report is emitted at step s
\* iff R divides s: after s steps the reports are those of steps R, 2R, ...,
\* floor(s/R) of them (so none for the initial weights), each with its loss; the
\* last step N is among them iff R divides N
C3_ReportsAtMultiples ==
    \A r \in Runs :
        LET rep == ReportedSteps(r)
        IN  /\ Len(rep) = step[r] \div INTERVAL
            /\ \A k \in 1..Len(rep) : rep[k] = k * INTERVAL
            /\ kind = "bonus" => Len(losses[r]) = Len(steps[r])
            /\ pc[r] = "done" =>
                 /\ Len(rep) = STEPS \div INTERVAL
                 /\ (\E k \in 1..Len(rep) : rep[k] = STEPS)
                      <=> (STEPS > 0 /\ STEPS % INTERVAL = 0)

\* C3 witness: a finished run of 3 steps with interval 2 reported step 2 only
C3_Witness ==
    /\ pc[1] = "done" /\ STEPS = 3 /\ INTERVAL = 2
    /\ ReportedSteps(1) = << 2 >>

\* the reports of run r at its reporting intervals: the fields of each printed
\* status line (linear), the entries appended to steps and losses (bonus)
Reports(r) ==
    IF kind = "linear" THEN printed[r]
    ELSE [k \in 1..Len(steps[r]) |-> [step |-> steps[r][k], loss |-> losses[r][k]]]

\* a report carries the current weights
HasWeights(rep) == {"w0", "w1"} \subseteq DOMAIN rep \/ "W" \in DOMAIN rep

\* C4 as claimed: every interval report of either loop contains the step index,
\* the loss and the current weights
C4_Original ==
    \A r \in Runs : \A k \in 1..Len(Reports(r)) :
        /\ {"step", "loss"} \subseteq DOMAIN Reports(r)[k]
        /\ HasWeights(Reports(r)[k])

\* C4 amended: every interval report of the linear loop contains the step index,
\* the loss after that step's update and both weights after it; every interval
\* report of the bonus loop contains the step index and the loss and no weights
C4_ReportContents ==
    \A r \in Runs : \A k \in 1..Len(Reports(r)) :
        LET rep == Reports(r)[k]
        IN  IF kind = "linear"
            THEN /\ DOMAIN rep = {"step", "loss", "w0", "w1"}
                 /\ rep.step = k * INTERVAL
                 /\ k = Len(Reports(r)) /\ step[r] = rep.step =>
                      /\ rep.w0 = w0[r] /\ rep.w1 = w1[r]
                      /\ rep.loss = loss_mse_linear(X, Y, w0[r], w1[r])
            ELSE /\ DOMAIN rep = {"step", "loss"}
                 /\ rep.step = k * INTERVAL
                 /\ k = Len(Reports(r)) /\ step[r] = rep.step =>
                      rep.loss = loss_mse(Xf, Y, W[r]).val

\* C4 witness: a linear run has printed at least two status lines, the last of
\* them for the step just completed, with weights that have moved
C4_Witness ==
    /\ kind = "linear" /\ Len(Reports(1)) >= 2
    /\ step[1] = Reports(1)[Len(Reports(1))].step
    /\ w0[1] # 0 /\ w1[1] # 0

\* C5: in every state of the bonus loop the weight vector has as many entries as
\* the feature map produces features (the length of every row of Xf), and that
\* number is the one fixed at initialization: n_weights, the five features
C5_WeightDimension ==
    kind = "bonus" =>
        \A r \in Runs :
            /\ \A i \in 1..Len(Xf) : Len(W[r]) = Len(Xf[i])
            /\ Len(W[r]) = n_weights
            /\ Len(W[r]) = Len(make_features(X)[1])
            /\ dW[r] # <<>> => Len(dW[r]) = Len(W[r])

\* C5 witness: a bonus run over two samples has updated its weights twice
C5_Witness ==
    /\ kind = "bonus" /\ Len(X) = 2 /\ step[1] >= 2
    /\ W[1] # zeros(n_weights)

\* the weight vector and the feature vector differ in size
Mismatch == n_weights # Len(Xf[1])

\* C6: if the weight vector's size differs from the feature vector's, the first
\* loss or gradient computation ends in an error.  In every state with such a
\* mismatch a run is in its loop or in the error state and never done, no update
\* was applied, no report and no line was emitted, no gradient was produced from
\* the mismatched operands and the weights are the initial ones; every step of
\* the run leads from its loop to the error state, which is never left
C6_MismatchFails ==
    /\ [](Mismatch =>
            \A r \in Runs :
                /\ pc[r] \in {"loop", "error"}
                /\ n_updates[r] = 0 /\ step[r] = 0
                /\ W[r] = zeros(n_weights)
                /\ dW[r] = <<>>
                /\ steps[r] = <<>> /\ losses[r] = <<>> /\ printed[r] = <<>>)
    /\ [][\A r \in Runs :
            /\ Mismatch /\ pc'[r] # pc[r] => pc[r] = "loop" /\ pc'[r] = "error"
            /\ pc[r] = "error" => pc'[r] = "error"]_vars

\* C6 witness: a run with fewer weights than features and steps to take has ended
\* in the error state
C6_Witness ==
    /\ Mismatch /\ pc[1] = "error" /\ STEPS > 0

\* the tolerance 1e-2 of the convergence test
Tolerance == Fx(1, 100)

\* C7: for X = 0..9, Y = 2X + 10, from w0 = w1 = 0, after 1000 steps at rate 0.02
\* the final weights satisfy |w0 - 2| <= 1e-2 and |w1 - 10| <= 1e-2, and the final
\* loss, which is also the last loss reported, is within 1e-2 of 0
C7_Converges ==
    pc[1] = "done" =>
        /\ Abs(w0[1] - Fx(2, 1)) <= Tolerance
        /\ Abs(w1[1] - Fx(10, 1)) <= Tolerance
        /\ loss_mse_linear(X, Y, w0[1], w1[1]) <= Tolerance
        /\ printed[1][Len(printed[1])].loss <= Tolerance

\* C7 witness: the notebook's linear run has finished its 1000 steps and printed
\* its ten status lines, the last one at step 1000
C7_Witness ==
    /\ pc[1] = "done" /\ step[1] = LinearSTEPS /\ n_updates[1] = LinearSTEPS
    /\ Len(printed[1]) = LinearSTEPS \div REPORT_EVERY
    /\ printed[1][Len(printed[1])].step = LinearSTEPS

\* the sum of the squares of the entries of the feature matrix
SumSquares(Xm) ==
    SumSeq([i \in 1..Len(Xm) |-> SumSeq([j \in 1..Len(Xm[i]) |-> FxMul(Xm[i][j], Xm[i][j])])])

\* the rate is small: at most 1 / trace(H) for the Hessian H = (2/m) Xf^T Xf of
\* the loss, hence at most 1 / (largest eigenvalue of H)
SmallRate == FxMul(LEARNING_RATE, 2 * SumSquares(Xf)) <= Len(Xf) * SCALE

ExactProduct(a, b) == ((a % SCALE) * (b % SCALE)) % SCALE = 0

\* the feature rows and the weights of the model evaluated in this state; the
\* linear model has the features x and 1 and the weights w0 and w1
Features == IF kind = "bonus" THEN Xf ELSE [i \in 1..Len(X) |-> << X[i], SCALE >>]
Weights(r) == IF kind = "bonus" THEN W[r] ELSE << w0[r], w1[r] >>
Gradient(r) == IF kind = "bonus" THEN dW[r] ELSE << dw0[r], dw1[r] >>

\* the residual of sample i at weights Wv, exact when its products are
Residual(Wv, i) ==
    SumSeq([j \in 1..Len(Wv) |-> FxMul(Features[i][j], Wv[j])]) - Y[i]

\* Wv is the exact least-squares minimizer: every prediction and every product
\* of a feature with a residual is computed without rounding, and the residuals
\* satisfy the normal equations Xf^T (Xf w - y) = 0
ExactMinimizer(Wv) ==
    /\ \A i \in 1..Len(Y) : \A j \in 1..Len(Wv) :
           /\ ExactProduct(Features[i][j], Wv[j])
           /\ ExactProduct(Features[i][j], Residual(Wv, i))
    /\ \A j \in 1..Len(Wv) :
           SumSeq([i \in 1..Len(Y) |-> FxMul(Features[i][j], Residual(Wv, i))]) = 0

\* every residual at Wv is zero
ZeroResiduals(Wv) == \A i \in 1..Len(Y) : Residual(Wv, i) = 0

\* a bound on the rounding error of component j of the gradient: one rounding of
\* 2 * residual / m per sample, scaled by the feature, and one of the product
GradNoise(j) == SumSeq([i \in 1..Len(Y) |-> Abs(Features[i][j]) \div SCALE + 1])

C9_WitnessResiduals ==
    /\ pc[1] = "evaluated" /\ kind = "bonus"
    /\ ExactMinimizer(W[1]) /\ ~ZeroResiduals(W[1])

ClosedFormGradient(Wv) ==
    [j \in 1..Len(Wv) |->
        RoundDiv(2 * SumSeq([i \in 1..Len(Y) |-> FxMul(Features[i][j], Residual(Wv, i))]),
                 Len(Y))]

\* no operation of either computation of the gradient at Wv rounds its result
NoRounding(Wv) ==
    \A i \in 1..Len(Y) :
        /\ (2 * Residual(Wv, i)) % Len(Y) = 0
        /\ \A j \in 1..Len(Wv) :
               /\ ExactProduct(Features[i][j], Residual(Wv, i))
               /\ ExactProduct(Features[i][j], (2 * Residual(Wv, i)) \div Len(Y))

C13_InitialWeightsZero ==
    \A r \in Runs :
        step[r] = 0 /\ n_updates[r] = 0 =>
            /\ kind = "linear" => w0[r] = 0 /\ w1[r] = 0
            /\ kind = "bonus" =>
                 /\ Len(W[r]) = n_weights
                 /\ \A j \in 1..n_weights : W[r][j] = 0

\* C13 witness: a bonus loop with steps to take is about to take its first, with
\* its five weights built
C13_Witness ==
    /\ kind = "bonus" /\ STEPS >= 1 /\ CanIterate(1)
    /\ step[1] = 0 /\ Len(W[1]) = 5

\* the state of the loop of run r as the number of completed steps defines it
RUNNING(r) == step[r] < STEPS

\* C14: the loop has exactly two states: RUNNING exactly while the number of
\* completed steps is less than the step count, DONE otherwise.  A RUNNING run is
\* in its loop with a next iteration; a run past its loop is DONE.  A transition
\* completes at most one step, never leads from DONE to RUNNING, and in DONE
\* changes no weight, applies no update and emits no interval report
C14_TwoStates ==
    /\ [](\A r \in Runs :
            /\ pc[r] \in {"loop", "done"}
            /\ step[r] <= STEPS
            /\ RUNNING(r) => pc[r] = "loop" /\ CanIterate(r)
            /\ pc[r] = "done" => ~RUNNING(r))
    /\ [][\A r \in Runs :
            /\ step'[r] \in {step[r], step[r] + 1}
            /\ ~RUNNING(r) =>
                 /\ step'[r] = step[r] /\ n_updates'[r] = n_updates[r]
                 /\ W'[r] = W[r] /\ w0'[r] = w0[r] /\ w1'[r] = w1[r]
                 /\ steps'[r] = steps[r] /\ losses'[r] = losses[r]
                 /\ kind = "linear" => printed'[r] = printed[r]]_vars

\* C14 witness: a linear run of at least two steps has left its loop after
\* reporting
C14_Witness ==
    /\ kind = "linear" /\ STEPS >= 2
    /\ pc[1] = "done" /\ step[1] = STEPS /\ Len(printed[1]) >= 1

\* C15: after the linear loop has finished, the mean squared error of the fitted
\* line on the test set X_test = 10..19, Y_test = 2 * X_test + 10 is strictly
\* smaller than the test-set error of the baseline that predicts the mean of the
\* training targets for every input
C15_BeatsBaseline ==
    \A r \in Runs :
        pc[r] = "done" /\ step[r] = LinearSTEPS =>
            /\ y_mean = Fx(19, 1)
            /\ test_loss(r) < baseline_loss

\* C15 witness: the linear cell has finished its 1000 steps on the toy dataset;
\* the baseline's test loss is 433 and the fitted line's is within 1e-2 of 0
C15_Witness ==
    /\ kind = "linear" /\ X = ToyDataset.X
    /\ pc[1] = "done" /\ step[1] = LinearSTEPS
    /\ baseline_loss = Fx(433, 1)
    /\ test_loss(1) <= Tolerance

\* C12: evaluating the loss, computing the gradient and emitting a report leave
\* the weights and the dataset unchanged: the only statement of a loop that
\* changes the weights (or counts as an update) is the per-step update, and no
\* statement changes the dataset or its features after they are loaded
C12_OnlyUpdateWrites ==
    [][/\ X' = X /\ Y' = Y /\ Xf' = Xf
       /\ \A r \in Runs :
            IF pc[r] = "gradient" /\ pc'[r] = "updated"
            THEN /\ n_updates'[r] = n_updates[r] + 1
                 /\ dW'[r] = dW[r] /\ dw0'[r] = dw0[r] /\ dw1'[r] = dw1[r]
                 /\ Reports(r)' = Reports(r)
            ELSE /\ W'[r] = W[r] /\ w0'[r] = w0[r] /\ w1'[r] = w1[r]
                 /\ n_updates'[r] = n_updates[r]
                 /\ W_history'[r] = W_history[r]]_vars

\* C12 witness: in its second or a later step a bonus run has computed a gradient
\* that is not zero and not yet applied it, after a report of an earlier step
C12_Witness ==
    /\ kind = "bonus" /\ pc[1] = "gradient" /\ step[1] >= 2
    /\ dW[1] # zeros(n_weights)
    /\ W[1] = W_history[1][Len(W_history[1])]
    /\ losses[1] # <<>>

\* the weights of run r after its k-th update, the initial ones for k = 0
WeightsAfter(r, k) ==
    IF k >= 1 THEN W_history[r][k]
    ELSE IF kind = "bonus" THEN zeros(n_weights) ELSE << 0, 0 >>

\* the loss and the gradient at weights Wv, for the model of this run
LossAt(Wv) ==
    IF kind = "bonus" THEN loss_mse(Xf, Y, Wv).val
    ELSE loss_mse_linear(X, Y, Wv[1], Wv[2])
GradientAt(Wv) ==
    IF kind = "bonus" THEN compute_gradients(Xf, Y, Wv).val
    ELSE LET g == compute_gradients_linear(X, Y, Wv[1], Wv[2])
         IN  << g.dw0, g.dw1 >>

\* C16: within step s the gradient is computed from the weights before the s-th
\* update, then the weights are updated, then on a reporting step the loss is
\* recomputed: a computed gradient is the gradient at the weights after s - 1
\* updates, the update is applied once per step after it, and the loss reported
\* at step s is the loss of the weights after the s-th update
C16_GradientUpdateReport ==
    \A r \in Runs :
        /\ pc[r] = "gradient" =>
             /\ n_updates[r] = step[r] - 1
             /\ Weights(r) = WeightsAfter(r, step[r] - 1)
             /\ Gradient(r) = GradientAt(WeightsAfter(r, step[r] - 1))
             /\ Len(Reports(r)) = (step[r] - 1) \div INTERVAL
        /\ pc[r] = "updated" =>
             /\ n_updates[r] = step[r]
             /\ Weights(r) = WeightsAfter(r, step[r])
             /\ Gradient(r) = GradientAt(WeightsAfter(r, step[r] - 1))
             /\ Len(Reports(r)) = (step[r] - 1) \div INTERVAL
        /\ pc[r] \in {"loop", "done"} =>
             /\ n_updates[r] = step[r]
             /\ Len(Reports(r)) = step[r] \div INTERVAL
        /\ \A k \in 1..Len(Reports(r)) :
             Reports(r)[k].loss = LossAt(WeightsAfter(r, Reports(r)[k].step))

\* C16 witness: a bonus run has reported at its second or a later step a loss
\* that differs from the loss its gradient of that step was taken from
C16_Witness ==
    /\ kind = "bonus" /\ pc[1] = "loop" /\ step[1] >= 2
    /\ Len(Reports(1)) >= 1
    /\ Reports(1)[Len(Reports(1))].step = step[1]
    /\ Reports(1)[Len(Reports(1))].loss # LossAt(WeightsAfter(1, step[1] - 1))

\* the string s occurs in the string t: t is a prefix, then s, then a suffix
OccursIn(sub, str) ==
    \E p, q \in 0..Len(str) :
        /\ p + Len(sub) + q = Len(str)
        /\ str = SubSeq(str, 1, p) \o sub \o SubSeq(str, Len(str) - q + 1, Len(str))

\* shown keeps the order of columns: it lists, in their order in columns, the
\* columns it contains, each once
KeepsOrder(shown, columns) ==
    \E pos \in [1..Len(shown) -> 1..Len(columns)] :
        /\ \A i \in 1..Len(shown) : shown[i] = columns[pos[i]]
        /\ \A i, j \in 1..Len(shown) : i < j => pos[i] < pos[j]

\* the columns of the summary table and of the report table passed to the
\* report, and the columns of the two tables it displayed
SummaryColumns == eval_result[2]
ReportColumns == eval_result[3]
ShownSummary == displayed[3].table
ShownReport == displayed[5].table

\* the report was called with a non-empty list of metrics
NonEmptySelection ==
    /\ ~IsOmitted(metrics_arg) /\ ~IsNone(metrics_arg)
    /\ metrics_arg.list # <<>>

\* column c of a table is displayed iff its name contains a selected metric
ShownIffSelected(shown, columns) ==
    /\ \A c \in Range(columns) :
           c \in Range(shown) <=>
               \E m \in Range(metrics_arg.list) : OccursIn(m, c)
    /\ Range(shown) \subseteq Range(columns)
    /\ KeepsOrder(shown, columns)

\* C17: called with a non-empty metrics list, display_eval_report displays a
\* column of the summary table and a column of the report table iff its name
\* contains at least one selected metric as a substring; the rule is the same for
\* both tables, the kept columns keep their order and the others are dropped
C17_FilterBySubstring ==
    eval_pc = "returned" /\ NonEmptySelection =>
        /\ ShownIffSelected(ShownSummary, SummaryColumns)
        /\ ShownIffSelected(ShownReport, ReportColumns)

\* C17 witness: with the metric "a" selected, the summary table shows "ba", which
\* contains it after another character, and drops "bb"; the report table drops
\* its dataset column "b" and shows "ab"
C17_Witness ==
    /\ eval_pc = "returned"
    /\ metrics_arg = PyList(<< << "a" >> >>)
    /\ SummaryColumns = << << "b", "b" >>, << "b", "a" >> >>
    /\ ShownSummary = << << "b", "a" >> >>
    /\ ReportColumns = << << "b" >>, << "a", "b" >> >>
    /\ ShownReport = << << "a", "b" >> >>

\* C18: called with metrics left out, None or an empty list, display_eval_report
\* filters nothing: every column of the summary table and every column of the
\* report table is displayed, in its order
C18_NoSelectionShowsAll ==
    eval_pc = "returned" /\ ~NonEmptySelection =>
        /\ ShownSummary = SummaryColumns
        /\ ShownReport = ReportColumns

\* C18 witness: a report called with an empty list has displayed two tables of
\* two columns each
C18_Witness ==
    /\ eval_pc = "returned"
    /\ metrics_arg = PyList(<<>>)
    /\ Len(ShownSummary) = 2 /\ Len(ShownReport) = 2

\* C19: every call of display_eval_report makes exactly five display calls in
\* this order: the title heading, the 'Summary Metrics' heading, the summary
\* table, the 'Report Metrics' heading, the report table, whether or not a
\* filter was given and whether or not the filtered tables are empty; before the
\* call nothing is displayed
C19_FiveDisplayCalls ==
    /\ eval_pc = "call" => displayed = <<>>
    /\ eval_pc = "returned" =>
         /\ Len(displayed) = 5
         /\ displayed[1] = [markdown |-> << "## ", eval_result[1] >>]
         /\ displayed[2] = [markdown |-> "### Summary Metrics"]
         /\ DOMAIN displayed[3] = {"table"}
         /\ displayed[4] = [markdown |-> "### Report Metrics"]
         /\ DOMAIN displayed[5] = {"table"}

\* C19 witness: a report whose filter left no column in either table has
\* returned
C19_Witness ==
    /\ eval_pc = "returned" /\ NonEmptySelection
    /\ SummaryColumns # <<>> /\ ReportColumns # <<>>
    /\ ShownSummary = <<>> /\ ShownReport = <<>>

\* the 36 characters a-z and 0-9
LowercaseAndDigits ==
    { "a", "b", "c", "d", "e", "f", "g", "h", "i", "j", "k", "l", "m",
      "n", "o", "p", "q", "r", "s", "t", "u", "v", "w", "x", "y", "z",
      "0", "1", "2", "3", "4", "5", "6", "7", "8", "9" }

\* C20: generate_uuid(length) returns a string of exactly `length` characters,
\* each one of the 36 characters a-z and 0-9; with no argument the string has 8
\* characters, and length 0 yields the empty string
C20_UuidLengthAndAlphabet ==
    eval_pc = "returned" /\ ~IsNone(run_id) =>
        /\ ~IsOmitted(length_arg) => Len(run_id.str) = length_arg.int
        /\ IsOmitted(length_arg) => Len(run_id.str) = 8
        /\ length_arg = PyInt(0) => run_id.str = <<>>
        /\ \A i \in 1..Len(run_id.str) : run_id.str[i] \in LowercaseAndDigits
        /\ Cardinality(LowercaseAndDigits) = 36
        /\ Range(Population) = LowercaseAndDigits

\* C20 witness: generate_uuid() has returned a string that has a letter and a
\* digit among its characters
C20_Witness ==
    /\ eval_pc = "returned" /\ IsOmitted(length_arg)
    /\ ~IsNone(run_id)
    /\ "z" \in Range(run_id.str) /\ "0" \in Range(run_id.str)

\* the cell of the evaluation loop has been executed to its end
LoopEnded == eval_pc \in { "evaluated", "model", "pairwise" }

\* the run names of execution e of the evaluation cell, one per template
RunNames(e) ==
    { experiment_run_name(run_history[e], n) :
        n \in 0..(Len(prompt_templates.list) - 1) }

\* C21 as claimed: the identifier returned by generate_uuid is unique: two
\* separate calls, in two executions of the evaluation cell, never return the
\* same string, so the experiment run names of two executions never collide
C21_Original ==
    LoopEnded =>
        \A a, b \in 1..Len(run_history) :
            a # b => /\ run_history[a] # run_history[b]
                     /\ RunNames(a) \cap RunNames(b) = {}

\* C21 witness: two executions of the evaluation cell drew the same run id and
\* passed the same run names to evaluate
C21_Witness ==
    /\ LoopEnded /\ Len(run_history) = 2
    /\ prompt_templates = PyList(SourceTemplates)
    /\ run_history[1] = run_history[2]
    /\ RunNames(1) = RunNames(2) /\ Cardinality(RunNames(1)) = 2
    /\ \A k \in 1..Len(evaluate_calls) :
           evaluate_calls[k].experiment_run_name \in RunNames(1)

\* v is x^2, v is sqrt(x) and v is exp(x) up to the rounding of the last place,
\* for 0 <= x <= 1: exp(x) lies between 1 + x + x^2/2 and 1 + x + x^2
IsSquare(x, v) == 2 * Abs(v * SCALE - x * x) <= SCALE
IsSqrt(x, v) == v >= 0 /\ Abs(v * v - x * SCALE) <= v
IsExp(x, v) ==
    /\ v >= SCALE + x + (x * x) \div (2 * SCALE) - 1
    /\ v <= SCALE + x + (x * x) \div SCALE + 1

\* C22: the feature map is a pure function that returns, for an input of m
\* values, an m-by-5 matrix whose row i is [1, x_i, x_i^2, sqrt(x_i), exp(x_i)]
\* in that column order; row i depends only on x_i, the bias column is 1 for
\* every input, and the weight vector built from it has exactly 5 entries
C22_FeatureMatrix ==
    kind = "bonus" =>
        /\ make_features(X) = Xf
        /\ Len(Xf) = Len(X)
        /\ \A i \in 1..Len(X) :
               /\ Len(Xf[i]) = 5
               /\ Xf[i][1] = SCALE
               /\ Xf[i][2] = X[i]
               /\ IsSquare(X[i], Xf[i][3])
               /\ IsSqrt(X[i], Xf[i][4])
               /\ IsExp(X[i], Xf[i][5])
               /\ Xf[i] = make_features(<< X[i] >>)[1]
               /\ \A j \in 1..Len(X) : X[i] = X[j] => Xf[i] = Xf[j]
        /\ n_weights = 5
        /\ \A r \in Runs : Len(W[r]) = 5

\* C22 witness: the loop has trained the five weights on the features of two
\* different inputs, one of which has a square, a root and an exponential that
\* differ from each other
C22_Witness ==
    /\ kind = "bonus" /\ Len(X) = 2 /\ X[1] # X[2]
    /\ Xf[1][3] < Xf[1][2] /\ Xf[1][2] < Xf[1][4] /\ Xf[1][4] < Xf[1][5]
    /\ pc[1] = "done" /\ step[1] > 0 /\ Len(W[1]) = 5

\* the rates of the loops entered at a minimizer: the notebook's rate 0.02, and
\* the rate 1, at which an update is as large as its gradient
MinimizerRates == { Fx(2, 100), Fx(1, 1) }

\* a loop entered with its weights at an exact least-squares minimizer of its
\* loss: any small dataset for either model, or the toy dataset at (2, 10)
InitAtMinimizer ==
    /\ \/ \E k \in {"linear", "bonus"}, d \in GradDatasets : InitData(k, d)
       \/ InitData("linear", ToyDataset)
    /\ InitWeights
    /\ W \in [{1} -> [1..n_weights -> GradWeights]]
    /\ IF kind = "bonus"
       THEN w0 = [r \in {1} |-> 0] /\ w1 = [r \in {1} |-> 0]
       ELSE IF X = ToyDataset.X
       THEN w0 = [r \in {1} |-> Fx(2, 1)] /\ w1 = [r \in {1} |-> Fx(10, 1)]
       ELSE w0 \in [{1} -> GradWeights] /\ w1 \in [{1} -> GradWeights]
    /\ ExactMinimizer(IF kind = "bonus" THEN W[1] ELSE << w0[1], w1[1] >>)
    /\ STEPS \in 0..MaxSteps
    /\ INTERVAL = REPORT_EVERY
    /\ LEARNING_RATE \in MinimizerRates
    /\ pc = [r \in {1} |-> "loop"]
    /\ step = [r \in {1} |-> 0]
    /\ dW = [r \in {1} |-> <<>>]
    /\ dw0 = [r \in {1} |-> 0]
    /\ dw1 = [r \in {1} |-> 0]
    /\ steps = [r \in {1} |-> <<>>]
    /\ losses = [r \in {1} |-> <<>>]
    /\ printed = [r \in {1} |-> <<>>]
    /\ W_history = [r \in {1} |-> <<>>]
    /\ n_updates = [r \in {1} |-> 0]
    /\ NoEvaluation

\* the loops entered at a minimizer
SpecFromMinimizer == InitAtMinimizer /\ [][Next]_vars

\* run r completes an iteration in this step
Iterates(r) == step'[r] = step[r] + 1

\* the weights of run r after this step
WeightsNext(r) == IF kind = "bonus" THEN W'[r] ELSE << w0'[r], w1'[r] >>

C23_WitnessMoved ==
    /\ kind = "bonus" /\ step[1] = 1
    /\ dW[1] # zeros(n_weights)
    /\ \E j \in 1..Len(W[1]) : W[1][j] # 0 /\ W[1][j] # Fx(1, 2)

\* the dish an article or a summary of the notebook is about
Subject(text) ==
    CASE text \in { "To make a classic spaghetti carbonara",
                    "The process of making spaghetti carbonara" } -> "carbonara"
      [] text \in { "Preparing a perfect risotto",
                    "Preparing risotto entails" } -> "risotto"
      [] text \in { "To bake a decadent chocolate cake",
                    "Baking a decadent chocolate cake" } -> "chocolate cake"
      [] text = "For a flavorful grilled steak" -> "steak"

\* in every row of the data frame the reference is the summary of the article
\* in the context column
ReferencesMatch(df) ==
    \A k \in 1..Len(df.rows) :
        Subject(df.rows[k].reference) = Subject(df.rows[k].context)

\* C24 as claimed: with the cells executed from top to bottom, in every row of
\* pairwise_eval_dataset the reference column holds the ground-truth summary of
\* the article in the context column of that row
C24_Original ==
    eval_pc = "pairwise" => ReferencesMatch(pairwise_eval_dataset)

\* C24 witness: the pairwise data frame was built after eval_dataset, whose
\* references match, and its third row pairs the steak article with the summary
\* of the chocolate cake article
C24_Witness ==
    /\ eval_pc = "pairwise"
    /\ ReferencesMatch(eval_dataset)
    /\ Len(pairwise_eval_dataset.rows) = 3
    /\ Subject(pairwise_eval_dataset.rows[3].context) = "steak"
    /\ Subject(pairwise_eval_dataset.rows[3].reference) = "chocolate cake"
    /\ \A k \in 1..2 : Subject(pairwise_eval_dataset.rows[k].reference)
                         = Subject(pairwise_eval_dataset.rows[k].context)

\* the text of the indices 0..3
IndexText == << "0", "1", "2", "3" >>

\* seq ends with the characters of tail
EndsWith(seq, tail) ==
    /\ Len(tail) <= Len(seq)
    /\ \A k \in 1..Len(tail) : seq[Len(seq) - Len(tail) + k] = tail[k]

\* C25: after the prompt-template evaluation loop eval_results holds exactly one
\* entry per prompt template, in the order of prompt_templates: entry i has the
\* title "Prompt #i" and the summary metrics and the metrics table returned by
\* the evaluate call made with template i and a run name ending in "-prompt-i";
\* the run names used within one execution are pairwise distinct
C25_OneEntryPerTemplate ==
    LoopEnded =>
        /\ Len(eval_results) = Len(prompt_templates.list)
        /\ Len(evaluate_calls) = Len(prompt_templates.list)
        /\ \A k \in 1..Len(eval_results) :
               /\ eval_results[k][1] =
                      << "P", "r", "o", "m", "p", "t", " ", "#", IndexText[k] >>
               /\ evaluate_calls[k].prompt_template = prompt_templates.list[k]
               /\ EndsWith(evaluate_calls[k].experiment_run_name,
                           << "-", "p", "r", "o", "m", "p", "t", "-", IndexText[k] >>)
               /\ eval_results[k][2] = evaluate_calls[k].summary_metrics
               /\ eval_results[k][3] = evaluate_calls[k].metrics_table
        /\ \A j, k \in 1..Len(evaluate_calls) :
               j # k => evaluate_calls[j].experiment_run_name
                          # evaluate_calls[k].experiment_run_name

\* C25 witness: the second execution of the loop over the two templates of the
\* notebook has ended, and its two evaluate calls returned different metrics
C25_Witness ==
    /\ eval_pc = "evaluated" /\ Len(run_history) = 2
    /\ prompt_templates = PyList(SourceTemplates)
    /\ Len(eval_results) = 2
    /\ eval_results[1][2] # eval_results[2][2]
    /\ eval_results[1][3] # eval_results[2][3]

====
